---- MODULE Spec2Model ----
(***************************************************************************)
(* A model of the static ELF linker (Dentosal/static-elf-linker).          *)
(*                                                                         *)
(* The module holds several specifications over one set of variables:      *)
(*   SpecPatch   SectionChunk::patch and SectionChunk::write_finalized     *)
(*               on one chunk (section.rs).                                *)
(*   SpecLayout  the three walks over a LinkedProgram that must agree:     *)
(*               LinkedProgram::iter_with_positions (section.rs),          *)
(*               lookup_input_section_addr (relocation.rs) and             *)
(*               write_elf64::write (write_elf64.rs).                      *)
(*   SpecGlobals extract_globals over bounded symbol tables                *)
(*               (name_resolution.rs).                                     *)
(*   SpecPack    sections_to_segments over bounded section lists           *)
(*               (section.rs).                                             *)
(*   Spec        the whole link of one or two relocatable objects: main    *)
(*               from the located inputs to the written image, with        *)
(*               combine_sections, apply_relocations and                   *)
(*               resolve_relocation_symbols (main.rs, section.rs,          *)
(*               relocation.rs, name_resolution.rs).                       *)
(*   SpecCombine the stages up to sections_to_segments over bounded        *)
(*               section header tables of two inputs (main.rs, section.rs).*)
(*   SpecConfig  the walks of SpecLayout under any Config (main.rs,        *)
(*               write_elf64.rs).                                          *)
(*   SpecArchive SpecPatch on a chunk of an archive member                 *)
(*               (open_files.rs).                                          *)
(*   SpecZero    the walks of SpecLayout on programs with chunk alignment 0*)
(*               (math.rs, section.rs).                                    *)
(*   SpecOverwrite the link of one object with non-zero bytes in .text, as *)
(*               a plain file or an archive member (relocation.rs).        *)
(* Each specification leaves the variables of the others at their idle     *)
(* values.                                                                 *)
(***************************************************************************)
EXTENDS Integers, Sequences, FiniteSets, TLC

VARIABLES
    chunk,      \* SpecPatch: the SectionChunk under test
    call,       \* SpecPatch: the last SectionChunk::patch call and its result
    written,    \* SpecPatch: the result of the last write_finalized
    linked,     \* the LinkedProgram: a sequence of segments
    config,     \* the Config [base_addr, segment_file_align, page_size]
    positions,  \* what iter_with_positions yields, in program order
    anchors,    \* the anchors resolved for the relocations (SpecLayout: one per chunk)
    image,      \* what write_elf64::write has emitted
    inputs,     \* the input ELF views, in input order
    section_names, \* the result of extract_section_names: a set of names
    globals,    \* the result of extract_globals: the GlobalSymbolTable
    assembled,  \* the output sections handed to sections_to_segments
    output,     \* the output file: what fs::write has written, NoOutput before
    pc,         \* the stage the run is at
    panicked    \* TRUE once the process has panicked (it is then dead)

patchVars == <<chunk, call, written>>
layoutVars == <<linked, config, positions, anchors, image>>
linkVars == <<inputs, section_names, globals, assembled>>
vars ==
    <<chunk, call, written, linked, config, positions, anchors, image, section_names,
      inputs, globals, assembled, output, pc, panicked>>

(***************************************************************************)
(* Bounds of the model.                                                    *)
(***************************************************************************)
MaxSize == 10       \* largest chunk size (bytes) in SpecPatch
MaxPatches == 4     \* most patches a chunk holds in SpecPatch

\* Lengths of the byte vectors handed to patch: 4 (R_X86_64_PC32), 8 (R_X86_64_64)
\* and a short one.
PatchLens == {1, 4, 8}

NoCall == [at |-> 0, len |-> 0, result |-> "none"]
NoWrite == [done |-> FALSE, panic |-> FALSE, out |-> <<>>]
\* ELF symbol bindings, visibilities and types (goblin::elf64::sym)
STB_LOCAL == 0
STB_GLOBAL == 1
STB_WEAK == 2
STV_DEFAULT == 0
STV_HIDDEN == 2
STT_NOTYPE == 0
STT_SECTION == 3

Sym(name, bind, type, visibility, shndx, value) ==
    [st_name |-> name, st_bind |-> bind, st_type |-> type,
     st_visibility |-> visibility, st_shndx |-> shndx, st_value |-> value]

\* goblin::elf64::header: the object file types
ET_REL == 1
ET_EXEC == 2

\* One input: the ELF view of an object file (header type, section headers,
\* symbols and relocation sections as goblin exposes them), the bytes the ELF was
\* parsed from, and the mapped file that holds it: for a plain .o file the two
\* are the same bytes
Elf(section_headers, syms, relocs, bytes) ==
    [e_type |-> ET_REL, section_headers |-> section_headers, syms |-> syms,
     relocs |-> relocs, bytes |-> bytes, mmap |-> bytes]

\* SectionChunk as build_section_from makes it: no patches yet
SectionChunk(input, range, section_index, alignment, permissions, relocations) ==
    [input |-> input, range_in_input |-> range, section_index |-> section_index,
     alignment |-> alignment, permissions |-> permissions,
     relocations |-> relocations, patches |-> <<>>]

\* SectionChunk::size
ChunkSize(c) == c.range_in_input.end - c.range_in_input.start

\* Permissions
Perm(r, w, x) == [read |-> r, write |-> w, execute |-> x]

IdleChunk == SectionChunk(0, [start |-> 0, end |-> 0], 0, 1, Perm(TRUE, FALSE, FALSE), <<>>)
NoImage == [headers |-> <<>>, chunk_offsets |-> <<>>, length |-> 0]
NoProgram == [segments |-> <<>>]
NoOutput == [written |-> FALSE]

\* main.rs: the hard-coded Config.
BaseAddr == 4194304
SegmentFileAlign == 4096
PageSize == 4096
DefaultConfig ==
    [base_addr |-> BaseAddr, segment_file_align |-> SegmentFileAlign, page_size |-> PageSize]

NoGlobals == [status |-> "none", table |-> <<>>]
LinkIdle == inputs = <<>> /\ section_names = {} /\ globals = NoGlobals /\ assembled = <<>>

PatchIdle == chunk = IdleChunk /\ call = NoCall /\ written = NoWrite
LayoutIdle ==
    /\ linked = NoProgram
    /\ config = DefaultConfig
    /\ positions = <<>>
    /\ anchors = <<>>
    /\ image = NoImage

(***************************************************************************)
(* section.rs: SectionChunk                                                *)
(***************************************************************************)

\* The bytes of a patch of length n: byte j (1-based) is 200 + j, so that a patch
\* byte is never mistaken for an original byte (originals are 1..MaxSize) and a
\* shifted overlay shows.
PatchBytes(n) == [j \in 1..n |-> 200 + j]

\* The original bytes of a chunk of the given size: byte at 0-based offset i is i + 1.
OrigBytes(size) == [j \in 1..size |-> j]

\* slice::partition_point(|p| p.offset < at). On a slice partitioned by the
\* predicate it is the number of leading elements that satisfy it; on any other
\* slice the result is unspecified (any index 0..len).
Partitioned(ps, at) ==
    \E k \in 0..Len(ps) :
        /\ \A i \in 1..k : ps[i].offset < at
        /\ \A i \in (k + 1)..Len(ps) : ~(ps[i].offset < at)

PartitionPoints(ps, at) ==
    IF Partitioned(ps, at)
    THEN {k \in 0..Len(ps) :
            /\ \A i \in 1..k : ps[i].offset < at
            /\ \A i \in (k + 1)..Len(ps) : ~(ps[i].offset < at)}
    ELSE 0..Len(ps)

\* The first check of patch: the range test.
NotInRange(size, at, len) == at + len >= size

\* The check against the patch before the insertion point.
OverlapsPrev(prev, at) == prev.offset + Len(prev.bytes) >= at

\* The check against the patch at the insertion point.
OverlapsNext(next, at, len) == at + len > next.offset

\* SectionChunk::patch(at, bytes) with the partition point `index` (0-based count):
\* the result and the patch list afterwards.
PatchAt(c, at, bytes, index) ==
    LET new == [offset |-> at, bytes |-> bytes] IN
    IF NotInRange(ChunkSize(c), at, Len(bytes))
    THEN [result |-> "NotInRange", patches |-> c.patches]
    ELSE IF c.patches = <<>>
    THEN [result |-> "Ok", patches |-> Append(c.patches, new)]
    ELSE IF index = 0
    THEN [result |-> "panic", patches |-> c.patches]   \* self.patches[index - 1]
    ELSE IF OverlapsPrev(c.patches[index], at)
    THEN [result |-> "Overlapping", patches |-> c.patches]
    ELSE IF index < Len(c.patches) /\ OverlapsNext(c.patches[index + 1], at, Len(bytes))
    THEN [result |-> "Overlapping", patches |-> c.patches]
    ELSE [result |-> "Ok", patches |-> Append(c.patches, new)]

\* bytes[from..to] of a Rust slice (0-based, half open); the caller checks the range.
Slice(bytes, from, to) == [j \in 1..(to - from) |-> bytes[from + j]]

\* InputCache::get_backing_bytes: the mapped file of input `id`, for a plain
\* file and for an archive alike
get_backing_bytes(ins, id) == ins[id + 1].mmap

\* &inputs.get_backing_bytes(chunk.input)[chunk.range_in_input.clone()]
ChunkBytes(ins, c) ==
    Slice(get_backing_bytes(ins, c.input), c.range_in_input.start, c.range_in_input.end)

\* SectionChunk::write_finalized: the bytes written to the target, and whether the
\* slicing panicked (the bytes written before the panic stay written).
RECURSIVE WriteFrom(_, _, _, _, _)
WriteFrom(bytes, patches, i, cursor, out) ==
    IF i > Len(patches)
    THEN IF cursor > Len(bytes)
         THEN [done |-> TRUE, panic |-> TRUE, out |-> out]
         ELSE [done |-> TRUE, panic |-> FALSE,
               out |-> out \o Slice(bytes, cursor, Len(bytes))]
    ELSE LET p == patches[i] IN
         IF cursor > p.offset \/ p.offset > Len(bytes)
         THEN [done |-> TRUE, panic |-> TRUE, out |-> out]
         ELSE WriteFrom(bytes, patches, i + 1, p.offset + Len(p.bytes),
                        out \o Slice(bytes, cursor, p.offset) \o p.bytes)

write_finalized(ins, c) == WriteFrom(ChunkBytes(ins, c), c.patches, 1, 0, <<>>)

(***************************************************************************)
(* SpecPatch: any sequence of patch calls on one chunk, with write_finalized *)
(***************************************************************************)
InitPatch ==
    /\ \E size \in 1..MaxSize :
         /\ inputs = <<Elf(<<>>, <<>>, <<>>, OrigBytes(size))>>
         /\ chunk = SectionChunk(0, [start |-> 0, end |-> size], 1, 1,
                                 Perm(TRUE, FALSE, TRUE), <<>>)
    /\ call = NoCall
    /\ written = NoWrite
    /\ panicked = FALSE
    /\ output = NoOutput
    /\ pc = "patch"
    /\ LayoutIdle
    /\ section_names = {}
    /\ globals = NoGlobals
    /\ assembled = <<>>

Patch(at, len) ==
    /\ ~panicked
    /\ Len(chunk.patches) < MaxPatches
    /\ \E index \in PartitionPoints(chunk.patches, at) :
         LET r == PatchAt(chunk, at, PatchBytes(len), index) IN
         /\ chunk' = [chunk EXCEPT !.patches = r.patches]
         /\ call' = [at |-> at, len |-> len, result |-> r.result]
         /\ panicked' = (r.result = "panic")
    /\ written' = NoWrite
    /\ UNCHANGED <<pc, layoutVars, linkVars, output>>

WriteFinalized ==
    /\ ~panicked
    /\ ~written.done
    /\ written' = write_finalized(inputs, chunk)
    /\ panicked' = written'.panic
    /\ UNCHANGED <<chunk, call, pc, layoutVars, linkVars, output>>

NextPatch ==
    \/ \E at \in 0..MaxSize, len \in PatchLens : Patch(at, len)
    \/ WriteFinalized

SpecPatch == InitPatch /\ [][NextPatch]_vars

(***************************************************************************)
(* Claims about SectionChunk::patch and write_finalized (SpecPatch)        *)
(***************************************************************************)
PatchEnd(p) == p.offset + Len(p.bytes)

PatchesSorted(ps) == \A i \in 1..(Len(ps) - 1) : ps[i].offset < ps[i + 1].offset

PatchesDisjoint(ps) ==
    \A i, j \in 1..Len(ps) :
        i # j => (PatchEnd(ps[i]) <= ps[j].offset \/ PatchEnd(ps[j]) <= ps[i].offset)

PatchesInChunk(c) == \A i \in 1..Len(c.patches) : PatchEnd(c.patches[i]) <= ChunkSize(c)

\* C3: after any sequence of patch calls the patch list of the chunk is sorted by
\* strictly increasing offset, no two patches overlap and every patch lies inside
\* [0, size) of the chunk.
C3_PatchListInvariant ==
    /\ PatchesSorted(chunk.patches)
    /\ PatchesDisjoint(chunk.patches)
    /\ PatchesInChunk(chunk)

\* C4: patch returns NotInRange only when at + bytes.len() > size; a 4-byte or
\* 8-byte patch that ends exactly at the size of the chunk is installed (so the
\* chunk holds a patch after such a call).
C4_PatchAtEndAccepted ==
    /\ call.result = "NotInRange" => call.at + call.len > ChunkSize(chunk)
    /\ (/\ call.result # "none"
        /\ call.len \in {4, 8}
        /\ call.at + call.len = ChunkSize(chunk)) => chunk.patches # <<>>

\* The byte write_finalized has to emit at 0-based offset i.
OverlayOk(orig, c, i, b) ==
    IF \E k \in 1..Len(c.patches) : c.patches[k].offset <= i /\ i < PatchEnd(c.patches[k])
    THEN \E k \in 1..Len(c.patches) :
            /\ c.patches[k].offset <= i /\ i < PatchEnd(c.patches[k])
            /\ b = c.patches[k].bytes[i - c.patches[k].offset + 1]
    ELSE b = orig[i + 1]

\* C5: for every patch list reachable through patch, write_finalized emits exactly
\* size() bytes; byte i is the byte of the patch that covers i, and the original
\* byte i when no patch covers it; the length of the chunk is unchanged by patching.
C5_WriteFinalizedOverlay ==
    /\ Len(inputs[1].bytes) = ChunkSize(chunk)
    /\ written.done =>
        /\ ~written.panic
        /\ Len(written.out) = ChunkSize(chunk)
        /\ \A i \in 0..(ChunkSize(chunk) - 1) :
              i + 1 <= Len(written.out) =>
                    OverlayOk(inputs[1].bytes, chunk, i, written.out[i + 1])

(***************************************************************************)
(* math.rs, permissions.rs, section.rs: sizes, alignments and positions    *)
(***************************************************************************)
Max(a, b) == IF a >= b THEN a ELSE b

MaxOf(S) == IF S = {} THEN 0 ELSE CHOOSE m \in S : \A x \in S : x <= m

\* math.rs: align_up
align_up(n, alignment) ==
    LET over == n % alignment IN
    IF over = 0 THEN n ELSE n - over + alignment

\* Permissions::default and Permissions::relax
PermDefault == Perm(FALSE, FALSE, FALSE)
relax(p, other) ==
    Perm(p.read \/ other.read, p.write \/ other.write, p.execute \/ other.execute)

\* Section::permissions: the OR of the chunks' permissions
RECURSIVE RelaxAll(_, _, _)
RelaxAll(chunks, i, perm) ==
    IF i > Len(chunks) THEN perm
    ELSE RelaxAll(chunks, i + 1, relax(perm, chunks[i].permissions))

SectionPermissions(section) == RelaxAll(section.chunks, 1, PermDefault)

\* Section::alignment: the largest chunk alignment, 0 without chunks
SectionAlignment(section) ==
    MaxOf({section.chunks[i].alignment : i \in 1..Len(section.chunks)})

\* Section::size: align the cursor to each chunk, then add its size
RECURSIVE SectionSizeFrom(_, _, _)
SectionSizeFrom(chunks, i, result) ==
    IF i > Len(chunks) THEN result
    ELSE SectionSizeFrom(chunks, i + 1,
                         align_up(result, chunks[i].alignment) + ChunkSize(chunks[i]))

SectionSize(section) == SectionSizeFrom(section.chunks, 1, 0)

\* Segment::alignment: the largest section alignment, 0 without sections
SegmentAlignment(segment) ==
    MaxOf({SectionAlignment(segment.sections[i]) : i \in 1..Len(segment.sections)})

\* Segment::size: align the cursor to each section, then add its size
RECURSIVE SegmentSizeFrom(_, _, _)
SegmentSizeFrom(sections, i, result) ==
    IF i > Len(sections) THEN result
    ELSE SegmentSizeFrom(sections, i + 1,
                         align_up(result, SectionAlignment(sections[i]))
                           + SectionSize(sections[i]))

SegmentSize(segment) == SegmentSizeFrom(segment.sections, 1, 0)

\* Segment::permissions: those of the first section
SegmentPermissions(segment) ==
    IF segment.sections = <<>> THEN PermDefault
    ELSE SectionPermissions(segment.sections[1])

\* LinkedProgram::segment_sizes
segment_sizes(lp, cfg) ==
    [i \in 1..Len(lp.segments) |->
        align_up(SegmentSize(lp.segments[i]), cfg.segment_file_align)]

\* iter_with_positions, outer scan: the start of segment si (1-based)
RECURSIVE SegmentStart(_, _, _)
SegmentStart(lp, cfg, si) ==
    IF si = 1 THEN 0
    ELSE align_up(SegmentStart(lp, cfg, si - 1) + SegmentSize(lp.segments[si - 1]),
                  Max(SegmentAlignment(lp.segments[si]), cfg.page_size))

\* iter_with_positions, middle scan: the start of section k (1-based) of a segment
RECURSIVE SectionStart(_, _, _)
SectionStart(segment, segment_start, k) ==
    LET a == SectionAlignment(segment.sections[k]) IN
    IF k = 1 THEN align_up(segment_start, a)
    ELSE align_up(align_up(SectionStart(segment, segment_start, k - 1), a)
                    + SectionSize(segment.sections[k - 1]), a)

\* iter_with_positions, inner scan: the start of chunk k (1-based) of a section
RECURSIVE ChunkStart(_, _, _)
ChunkStart(section, section_start, k) ==
    LET a == section.chunks[k].alignment IN
    IF k = 1 THEN align_up(section_start, a)
    ELSE align_up(align_up(ChunkStart(section, section_start, k - 1), a)
                    + ChunkSize(section.chunks[k - 1]), a)

\* The chunks of a program in program order, as <<segment, section, chunk>> indices
RECURSIVE ConcatAll(_, _)
ConcatAll(seqs, i) == IF i > Len(seqs) THEN <<>> ELSE seqs[i] \o ConcatAll(seqs, i + 1)

ChunkIndices(lp) ==
    ConcatAll([si \in 1..Len(lp.segments) |->
        ConcatAll([ci \in 1..Len(lp.segments[si].sections) |->
            [ki \in 1..Len(lp.segments[si].sections[ci].chunks) |-> <<si, ci, ki>>]], 1)], 1)

\* LinkedProgram::iter_with_positions: one ItChunk per chunk, in program order
iter_with_positions(lp, cfg) ==
    LET idx == ChunkIndices(lp) IN
    [n \in 1..Len(idx) |->
        LET si == idx[n][1]
            ci == idx[n][2]
            ki == idx[n][3]
            segment == lp.segments[si]
            section == segment.sections[ci]
            segment_start == SegmentStart(lp, cfg, si)
            section_start == SectionStart(segment, segment_start, ci)
        IN  [chunk |-> section.chunks[ki],
             segment_index |-> si - 1,
             section_index |-> ci - 1,
             chunk_index |-> ki - 1,
             segment_start |-> segment_start,
             section_start |-> section_start,
             chunk_start |-> ChunkStart(section, section_start, ki)]]

(***************************************************************************)
(* relocation.rs: lookup_input_section_addr                                *)
(***************************************************************************)
\* The loop over the chunks of one section: stops at the first chunk of the given
\* input and section index.
RECURSIVE LookupChunks(_, _, _, _, _)
LookupChunks(chunks, k, addr, input, section_index) ==
    IF k > Len(chunks) THEN [found |-> FALSE, addr |-> addr]
    ELSE LET a == align_up(addr, chunks[k].alignment) IN
         IF chunks[k].input = input /\ chunks[k].section_index = section_index
         THEN [found |-> TRUE, addr |-> a]
         ELSE LookupChunks(chunks, k + 1, a + ChunkSize(chunks[k]), input, section_index)

\* The loop over the sections of one segment.
RECURSIVE LookupSections(_, _, _, _, _)
LookupSections(sections, c, addr, input, section_index) ==
    IF c > Len(sections) THEN [found |-> FALSE, addr |-> addr]
    ELSE LET r == LookupChunks(sections[c].chunks, 1,
                               align_up(addr, SectionAlignment(sections[c])),
                               input, section_index) IN
         IF r.found THEN r
         ELSE LookupSections(sections, c + 1, r.addr, input, section_index)

\* The loop over the segments: after each segment addr is set from that segment's
\* size and alignment alone.
RECURSIVE LookupSegments(_, _, _, _, _, _)
LookupSegments(lp, cfg, s, addr, input, section_index) ==
    IF s > Len(lp.segments) THEN [found |-> FALSE, addr |-> addr]
    ELSE LET segment == lp.segments[s]
             r == LookupSections(segment.sections, 1, addr, input, section_index) IN
         IF r.found THEN r
         ELSE LookupSegments(lp, cfg, s + 1,
                             align_up(SegmentSize(segment),
                                      Max(SegmentAlignment(segment), cfg.page_size)),
                             input, section_index)

\* lookup_input_section_addr: Some(addr) as [found |-> TRUE, addr], None as found = FALSE
lookup_input_section_addr(lp, cfg, input, section_index) ==
    LookupSegments(lp, cfg, 1, 0, input, section_index)

(***************************************************************************)
(* write_elf64.rs: write                                                   *)
(***************************************************************************)
RECURSIVE SumTake(_, _)
SumTake(s, n) == IF n = 0 THEN 0 ELSE s[n] + SumTake(s, n - 1)

pos_after_headers(lp) == 64 + Len(lp.segments) * 56
pos_first_content(lp, cfg) == align_up(pos_after_headers(lp), cfg.segment_file_align)

\* nth_segment_offset(n), n 0-based
nth_segment_offset(lp, cfg, n) ==
    pos_first_content(lp, cfg) + SumTake(segment_sizes(lp, cfg), n)

PermFlags(p) ==
    (IF p.read THEN 4 ELSE 0) + (IF p.write THEN 2 ELSE 0) + (IF p.execute THEN 1 ELSE 0)

\* segment_vaddr at the program header of segment i (1-based), after its align_up
RECURSIVE SegmentVaddr(_, _, _)
SegmentVaddr(lp, cfg, i) ==
    IF i = 1 THEN align_up(cfg.base_addr, cfg.page_size)
    ELSE align_up(SegmentVaddr(lp, cfg, i - 1)
                    + align_up(SegmentSize(lp.segments[i - 1]), cfg.page_size),
                  cfg.page_size)

\* The program headers, one per segment
ProgramHeaders(lp, cfg) ==
    [i \in 1..Len(lp.segments) |->
        [p_type |-> 1,
         p_flags |-> PermFlags(SegmentPermissions(lp.segments[i])),
         p_offset |-> nth_segment_offset(lp, cfg, i - 1),
         p_vaddr |-> SegmentVaddr(lp, cfg, i),
         p_paddr |-> SegmentVaddr(lp, cfg, i),
         p_filesz |-> align_up(SegmentSize(lp.segments[i]), cfg.segment_file_align),
         p_memsz |-> align_up(SegmentSize(lp.segments[i]), cfg.page_size),
         p_align |-> cfg.page_size]]

\* The state of the content loop: `position` is the code's cursor, `length` the
\* number of bytes written to the target so far, `offsets` the file offset at
\* which each chunk's bytes were written, in program order.
\* The chunk loop: the chunk's bytes are written first, the padding to the chunk's
\* alignment after them; then position moves over both.
RECURSIVE WriteChunks(_, _, _)
WriteChunks(chunks, k, st) ==
    IF k > Len(chunks) THEN st
    ELSE LET data_at == st.length
             align_amount == align_up(st.position, chunks[k].alignment) - st.position
         IN  WriteChunks(chunks, k + 1,
                [position |-> st.position + align_amount + ChunkSize(chunks[k]),
                 length |-> st.length + ChunkSize(chunks[k]) + align_amount,
                 offsets |-> Append(st.offsets, data_at)])

RECURSIVE WriteSections(_, _, _)
WriteSections(sections, c, st) ==
    IF c > Len(sections) THEN st
    ELSE LET align_amount ==
                 align_up(st.position, SectionAlignment(sections[c])) - st.position
         IN  WriteSections(sections, c + 1,
                WriteChunks(sections[c].chunks, 1,
                    [st EXCEPT !.position = @ + align_amount,
                               !.length = @ + align_amount]))

RECURSIVE WriteSegments(_, _, _, _)
WriteSegments(lp, cfg, s, st) ==
    IF s > Len(lp.segments) THEN st
    ELSE LET after == WriteSections(lp.segments[s].sections, 1, st)
             alignment == Max(SegmentAlignment(lp.segments[s]), cfg.page_size)
             align_amount == align_up(after.position, alignment) - after.position
         IN  WriteSegments(lp, cfg, s + 1,
                [after EXCEPT !.position = @ + align_amount,
                              !.length = @ + align_amount])

\* write: the file header (64 bytes), the program headers (56 bytes each), the
\* padding up to pos_first_content, then the segments.
write(lp, cfg) ==
    LET headers_len == 64 + 56 * Len(lp.segments)
        pad == pos_first_content(lp, cfg) - pos_after_headers(lp)
        st == WriteSegments(lp, cfg, 1,
                 [position |-> pos_first_content(lp, cfg),
                  length |-> headers_len + pad,
                  offsets |-> <<>>])
    IN  [headers |-> ProgramHeaders(lp, cfg),
         chunk_offsets |-> st.offsets,
         length |-> st.length]

(***************************************************************************)
(* SpecLayout: a LinkedProgram drawn from the bounded programs, on which   *)
(* apply_relocations' two walks and the writer's walk are run              *)
(***************************************************************************)
MaxChunks == 4          \* most chunks of a program in SpecLayout

Aligns == {1, 2, 4}     \* chunk alignments (sh_addralign), powers of two
Sizes == {1, 3}         \* chunk sizes in bytes

\* The palette with its first two entries exchanged
PaletteReadOnlyFirst ==
    <<Perm(TRUE, FALSE, FALSE), Perm(TRUE, FALSE, TRUE),
      Perm(TRUE, TRUE, FALSE), Perm(TRUE, TRUE, TRUE)>>

\* sections_to_segments: the palette of segment permissions, in order
Palette ==
    <<Perm(TRUE, FALSE, TRUE), Perm(TRUE, FALSE, FALSE),
      Perm(TRUE, TRUE, FALSE), Perm(TRUE, TRUE, TRUE)>>

\* One chunk of a program to draw: its alignment, its size, and whether it opens
\* a new segment, a new section of the current segment, or follows in the
\* current section.
Desc == [alignment : Aligns, size : Sizes, opens : {"segment", "section", "chunk"}]

SegmentCount(d) == Cardinality({i \in DOMAIN d : d[i].opens = "segment"})

\* The program described by d[1..n]: segment i has the permissions Palette[i];
\* chunk n comes from input n % 2 and is that input's section number n.
RECURSIVE BuildProgram(_, _)
BuildProgram(d, n) ==
    IF n = 0 THEN NoProgram
    ELSE LET lp == BuildProgram(d, n - 1)
             ns == Len(lp.segments) + (IF d[n].opens = "segment" THEN 1 ELSE 0)
             c == SectionChunk(n % 2, [start |-> 0, end |-> d[n].size], n,
                               d[n].alignment, Palette[ns], <<>>)
             nsec == IF d[n].opens = "segment" THEN 0
                     ELSE Len(lp.segments[ns].sections)
         IN  IF d[n].opens = "segment"
             THEN [segments |-> Append(lp.segments, [sections |-> <<[chunks |-> <<c>>]>>])]
             ELSE IF d[n].opens = "section"
             THEN [segments |-> [lp.segments EXCEPT ![ns].sections =
                                    Append(@, [chunks |-> <<c>>])]]
             ELSE [segments |-> [lp.segments EXCEPT ![ns].sections[nsec].chunks =
                                    Append(@, c)]]

InitLayout ==
    /\ \E n \in 1..MaxChunks : \E d \in [1..n -> Desc] :
          /\ d[1].opens = "segment"
          /\ SegmentCount(d) <= Len(Palette)
          /\ linked = BuildProgram(d, n)
    /\ config = DefaultConfig
    /\ positions = <<>>
    /\ anchors = <<>>
    /\ image = NoImage
    /\ pc = "packed"
    /\ panicked = FALSE
    /\ output = NoOutput
    /\ PatchIdle
    /\ LinkIdle

\* resolve_relocation_symbols, the RelativeTo::Section arm, for a relocation owned
\* by a chunk of `input` and anchored at that input's section `index`
ResolveSection(lp, cfg, input, index) ==
    LET r == lookup_input_section_addr(lp, cfg, input, index) IN
    [ok |-> r.found, relative_to |-> r.addr, offset |-> 0]

\* align_up(n, 0) panics on `n % alignment`: some chunk of the program has
\* alignment 0, so that Section::size and the scans of iter_with_positions
\* divide by zero
ZeroAlignment(lp) ==
    \E s \in 1..Len(lp.segments) : \E c \in 1..Len(lp.segments[s].sections) :
        \E k \in 1..Len(lp.segments[s].sections[c].chunks) :
            lp.segments[s].sections[c].chunks[k].alignment = 0

\* apply_relocations, first statement: the chunk starts from iter_with_positions
IterWithPositions ==
    /\ pc = "packed"
    /\ panicked' = ZeroAlignment(linked)
    /\ positions' = IF panicked' THEN positions ELSE iter_with_positions(linked, config)
    /\ pc' = IF panicked' THEN "failed" ELSE "positioned"
    /\ UNCHANGED <<linked, config, anchors, image, patchVars, linkVars, output>>

\* apply_relocations, second statement: the anchors; here one section anchor per
\* chunk of the program, naming that chunk's own input section
ResolveSectionAnchors ==
    /\ pc = "positioned"
    /\ anchors' = [n \in 1..Len(positions) |->
                      ResolveSection(linked, config, positions[n].chunk.input,
                                     positions[n].chunk.section_index)]
    /\ pc' = "resolved"
    /\ UNCHANGED <<linked, config, positions, image, panicked, patchVars, linkVars, output>>

\* build_binary: write_elf64::write
Write ==
    /\ pc = "resolved"
    /\ image' = write(linked, config)
    /\ pc' = "written"
    /\ UNCHANGED <<linked, config, positions, anchors, panicked, patchVars, linkVars, output>>

NextLayout == IterWithPositions \/ ResolveSectionAnchors \/ Write

SpecLayout == InitLayout /\ [][NextLayout]_vars

(***************************************************************************)
(* Claims about the layout (SpecLayout)                                    *)
(***************************************************************************)
RECURSIVE GCD(_, _)
GCD(a, b) == IF b = 0 THEN a ELSE GCD(b, a % b)

\* The first chunk in program order with the input and section index of chunk n
FirstMatch(pos, n) ==
    CHOOSE m \in 1..Len(pos) :
        /\ pos[m].chunk.input = pos[n].chunk.input
        /\ pos[m].chunk.section_index = pos[n].chunk.section_index
        /\ \A l \in 1..(m - 1) :
              ~(/\ pos[l].chunk.input = pos[n].chunk.input
                /\ pos[l].chunk.section_index = pos[n].chunk.section_index)

\* C1: the writer places the first byte of every chunk at file offset
\* p_offset(S) + (chunk_start - segment_start), S the chunk's segment and the
\* starts those of iter_with_positions: padding comes before the chunk's bytes.
C1_FileOffsetsFollowPositions ==
    pc = "written" =>
        \A n \in 1..Len(positions) :
            image.chunk_offsets[n] =
                image.headers[positions[n].segment_index + 1].p_offset
                  + (positions[n].chunk_start - positions[n].segment_start)

\* C2: for every chunk the address used for a Section{index} anchor naming it
\* is the chunk_start iter_with_positions yields for the first chunk with that
\* input and section index, and the symbol offset used with it is 0.
C2_SectionAnchorIsChunkStart ==
    pc \in {"resolved", "written"} =>
        \A n \in 1..Len(positions) :
            /\ anchors[n].ok
            /\ anchors[n].relative_to = positions[FirstMatch(positions, n)].chunk_start
            /\ anchors[n].offset = 0

\* C6: for two chunks A before B in program order, chunk_start(A) + size(A) <=
\* chunk_start(B), and chunk_start(B) - chunk_start(A) is a multiple of the gcd
\* of their alignments (all alignments being powers of two).
C6_LayoutMonotonic ==
    \A m, n \in 1..Len(positions) :
        m < n =>
            /\ positions[m].chunk_start + ChunkSize(positions[m].chunk)
                  <= positions[n].chunk_start
            /\ (positions[n].chunk_start - positions[m].chunk_start)
                  % GCD(positions[m].chunk.alignment, positions[n].chunk.alignment) = 0

(***************************************************************************)
(* name_resolution.rs: extract_globals                                     *)
(***************************************************************************)
\* The test of extract_globals_from that makes a symbol a definition
IsDefinitionNoVisibility(sym) == sym.st_bind = STB_GLOBAL /\ sym.st_shndx # 0

\* The test with weak binding taken as a definition too
IsDefinitionOrWeak(sym) ==
    sym.st_bind \in {STB_GLOBAL, STB_WEAK} /\ sym.st_visibility # STV_HIDDEN /\ sym.st_shndx # 0

IsDefinition(sym) ==
    sym.st_bind = STB_GLOBAL /\ sym.st_visibility # STV_HIDDEN /\ sym.st_shndx # 0

\* HashMap::insert: the map afterwards
MapInsert(map, key, value) ==
    [k \in (DOMAIN map) \cup {key} |-> IF k = key THEN value ELSE map[k]]

\* extract_globals_from: the loop over the symbols of one input, from symbol k on.
\* A second insertion under a name panics ("Duplicate definition").
RECURSIVE ExtractFrom(_, _, _, _)
ExtractFrom(input, syms, k, g) ==
    IF k > Len(syms) \/ g.status = "panic" THEN g
    ELSE IF IsDefinition(syms[k])
    THEN LET location == [input |-> input, symtab_index |-> k - 1]
             old == syms[k].st_name \in DOMAIN g.table
         IN  ExtractFrom(input, syms, k + 1,
                [status |-> IF old THEN "panic" ELSE g.status,
                 table |-> MapInsert(g.table, syms[k].st_name, location)])
    ELSE ExtractFrom(input, syms, k + 1, g)

extract_globals_from(input, elf, g) == ExtractFrom(input, elf.syms, 1, g)

\* extract_globals: every input in order (inputs are numbered from 0)
RECURSIVE ExtractInputs(_, _, _)
ExtractInputs(ins, i, g) ==
    IF i > Len(ins) \/ g.status = "panic" THEN g
    ELSE ExtractInputs(ins, i + 1, extract_globals_from(i - 1, ins[i], g))

extract_globals(ins) == ExtractInputs(ins, 1, [status |-> "ok", table |-> <<>>])

(***************************************************************************)
(* SpecGlobals: extract_globals on bounded symbol tables                   *)
(***************************************************************************)
MaxSyms == 2        \* most symbols over all inputs in SpecGlobals

SymNames == {"a", "b"}

\* One symbol to draw, and whether it opens a new input
SymDesc ==
    [name : SymNames, bind : {STB_LOCAL, STB_GLOBAL, STB_WEAK},
     visibility : {STV_DEFAULT, STV_HIDDEN}, shndx : {0, 1}, opens : BOOLEAN]

\* The inputs described by d[1..n]
RECURSIVE BuildInputs(_, _)
BuildInputs(d, n) ==
    IF n = 0 THEN <<>>
    ELSE LET ins == BuildInputs(d, n - 1)
             sym == Sym(d[n].name, d[n].bind, STT_NOTYPE, d[n].visibility, d[n].shndx, 0)
         IN  IF d[n].opens \/ n = 1
             THEN Append(ins, Elf(<<>>, <<sym>>, <<>>, <<>>))
             ELSE [ins EXCEPT ![Len(ins)].syms = Append(@, sym)]

InitGlobals ==
    /\ \E n \in 1..MaxSyms : \E d \in [1..n -> SymDesc] :
          /\ d[1].opens
          /\ inputs = BuildInputs(d, n)
    /\ section_names = {}
    /\ globals = NoGlobals
    /\ assembled = <<>>
    /\ pc = "loaded"
    /\ panicked = FALSE
    /\ output = NoOutput
    /\ PatchIdle
    /\ LayoutIdle

\* main: name_resolution::extract_globals(&input_files)
ExtractGlobals ==
    /\ pc = "loaded"
    /\ ~panicked
    /\ globals' = extract_globals(inputs)
    /\ panicked' = (globals'.status = "panic")
    /\ pc' = "globals"
    /\ UNCHANGED <<inputs, section_names, assembled, patchVars, layoutVars, output>>

NextGlobals == ExtractGlobals

SpecGlobals == InitGlobals /\ [][NextGlobals]_vars

(***************************************************************************)
(* Claims about extract_globals (SpecGlobals)                              *)
(***************************************************************************)
\* The symbols of the inputs, as <<input, symtab_index>> (both 0-based)
AllSyms ==
    UNION {{<<i - 1, k - 1>> : k \in 1..Len(inputs[i].syms)} : i \in 1..Len(inputs)}

SymAt(loc) == inputs[loc[1] + 1].syms[loc[2] + 1]

\* The definitions by the words of the claim: global binding, not hidden, defined
Definitions ==
    {loc \in AllSyms :
        /\ SymAt(loc).st_bind = 1
        /\ SymAt(loc).st_visibility # 2
        /\ SymAt(loc).st_shndx # 0}

DuplicateDefined ==
    \E x, y \in Definitions : x # y /\ SymAt(x).st_name = SymAt(y).st_name

\* C9: extract_globals aborts with "Duplicate definition" whenever two
\* definitions (global, not hidden, st_shndx # 0) carry the same name, in
\* different inputs or in the same one; when it succeeds every defined name maps
\* to the GlobalLocation of its only definition, and local, hidden and undefined
\* symbols never enter the table.
C9_GlobalsTable ==
    pc = "globals" =>
        /\ DuplicateDefined => globals.status = "panic"
        /\ globals.status = "ok" =>
              /\ DOMAIN globals.table = {SymAt(loc).st_name : loc \in Definitions}
              /\ \A loc \in Definitions :
                    globals.table[SymAt(loc).st_name] =
                        [input |-> loc[1], symtab_index |-> loc[2]]

\* Witness of C9: the extraction has aborted on two definitions of one name in
\* different inputs.
C9_Witness ==
    /\ pc = "globals"
    /\ globals.status = "panic"
    /\ \E x, y \in Definitions :
          x[1] # y[1] /\ SymAt(x).st_name = SymAt(y).st_name

(***************************************************************************)
(* section.rs: sections_to_segments                                        *)
(***************************************************************************)
\* Vec::drain_filter(|s| s.permissions() == perms): the sections taken out, in
\* order, and the sections left, in order
DrainFilter(secs, perms) ==
    [drained |-> SelectSeq(secs, LAMBDA s : SectionPermissions(s) = perms),
     rest |-> SelectSeq(secs, LAMBDA s : SectionPermissions(s) # perms)]

\* The map over the palette: one segment per entry, drained from what the earlier
\* entries have left
RECURSIVE DrainAll(_, _, _, _)
DrainAll(order, k, secs, segs) ==
    IF k > Len(order) THEN [segments |-> segs, rest |-> secs]
    ELSE LET d == DrainFilter(secs, order[k]) IN
         DrainAll(order, k + 1, d.rest, Append(segs, [sections |-> d.drained]))

\* .filter(|segment| !segment.sections.is_empty())
NonEmptySegments(segs) == SelectSeq(segs, LAMBDA g : g.sections # <<>>)

\* sections_to_segments: the LinkedProgram, or the panic of
\* assert!(sections.is_empty(), "Uncollected sections")
sections_to_segments(secs) ==
    LET d == DrainAll(Palette, 1, secs, <<>>) IN
    [panic |-> d.rest # <<>>,
     linked |-> [segments |-> NonEmptySegments(d.segments)]]

(***************************************************************************)
(* SpecPack: sections_to_segments on bounded section lists                 *)
(***************************************************************************)
MaxPackItems == 4   \* most chunks and empty sections of a section list in SpecPack

\* One item of a section list to draw: a chunk with its flags that opens a new
\* section or follows in the current one, or a section without chunks.
PackDesc ==
    {d \in [write : BOOLEAN, execute : BOOLEAN, opens : {"section", "chunk", "empty"}] :
        d.opens = "empty" => (~d.write /\ ~d.execute)}

\* The section list described by d[1..n]; a section is named by its place in
\* the list, a chunk is readable as build_section_from makes every chunk.
RECURSIVE BuildSections(_, _)
BuildSections(d, n) ==
    IF n = 0 THEN <<>>
    ELSE LET secs == BuildSections(d, n - 1)
             c == SectionChunk(0, [start |-> 0, end |-> 1], n, 1,
                               Perm(TRUE, d[n].write, d[n].execute), <<>>)
         IN  IF d[n].opens = "empty"
             THEN Append(secs, [name |-> Len(secs) + 1, chunks |-> <<>>])
             ELSE IF d[n].opens = "section" \/ secs = <<>>
             THEN Append(secs, [name |-> Len(secs) + 1, chunks |-> <<c>>])
             ELSE [secs EXCEPT ![Len(secs)].chunks = Append(@, c)]

InitPack ==
    /\ \E n \in 0..MaxPackItems : \E d \in [1..n -> PackDesc] :
          /\ n > 0 => d[1].opens # "chunk"
          /\ assembled = BuildSections(d, n)
    /\ inputs = <<>>
    /\ section_names = {}
    /\ globals = NoGlobals
    /\ pc = "assembled"
    /\ panicked = FALSE
    /\ output = NoOutput
    /\ PatchIdle
    /\ LayoutIdle

\* build: sections_to_segments(config, inputs, sections)
SectionsToSegments ==
    /\ pc = "assembled"
    /\ ~panicked
    /\ LET r == sections_to_segments(assembled) IN
         /\ panicked' = r.panic
         /\ linked' = IF r.panic THEN linked ELSE r.linked
         /\ pc' = IF r.panic THEN "failed" ELSE "packed"
    /\ UNCHANGED <<config, positions, anchors, image, linkVars, patchVars, output>>

NextPack == SectionsToSegments

SpecPack == InitPack /\ [][NextPack]_vars

(***************************************************************************)
(* Claims about sections_to_segments (SpecPack)                            *)
(***************************************************************************)
\* The palette by the words of the claim: r-x, r--, rw-, rwx
ClaimedOrder ==
    <<[read |-> TRUE, write |-> FALSE, execute |-> TRUE],
      [read |-> TRUE, write |-> FALSE, execute |-> FALSE],
      [read |-> TRUE, write |-> TRUE, execute |-> FALSE],
      [read |-> TRUE, write |-> TRUE, execute |-> TRUE]>>

\* The OR of the permissions of the chunks of a section
OrOfChunks(section) ==
    [read |-> \E i \in 1..Len(section.chunks) : section.chunks[i].permissions.read,
     write |-> \E i \in 1..Len(section.chunks) : section.chunks[i].permissions.write,
     execute |-> \E i \in 1..Len(section.chunks) : section.chunks[i].permissions.execute]

\* The palette entry of a segment: that of its first section (0 if none)
EntryOf(segment) ==
    IF \E k \in 1..4 : ClaimedOrder[k] = OrOfChunks(segment.sections[1])
    THEN CHOOSE k \in 1..4 : ClaimedOrder[k] = OrOfChunks(segment.sections[1])
    ELSE 0

\* C10: the segments sections_to_segments returns come in the palette order
\* r-x, r--, rw-, rwx, at most one per palette entry and none empty; all sections
\* of a segment have the permission triple (OR of their chunks') of that entry;
\* and the sections of a segment keep their relative assembly order.
C10_SegmentsByPalette ==
    pc = "packed" =>
        /\ \A i \in 1..Len(linked.segments) :
              LET secs == linked.segments[i].sections IN
              /\ secs # <<>>
              /\ EntryOf(linked.segments[i]) \in 1..4
              /\ \A j \in 1..Len(secs) :
                    OrOfChunks(secs[j]) = ClaimedOrder[EntryOf(linked.segments[i])]
              /\ \A j \in 1..(Len(secs) - 1) : secs[j].name < secs[j + 1].name
        /\ \A i \in 1..(Len(linked.segments) - 1) :
              EntryOf(linked.segments[i]) < EntryOf(linked.segments[i + 1])

\* Witness of C10: a packed program of at least two segments, one of which holds
\* two sections that were not neighbours in the assembled list.
C10_Witness ==
    /\ pc = "packed"
    /\ Len(linked.segments) >= 2
    /\ \E i \in 1..Len(linked.segments) :
          LET secs == linked.segments[i].sections IN
          /\ Len(secs) >= 2
          /\ secs[2].name > secs[1].name + 1

(***************************************************************************)
(* The whole link: main.rs, section.rs (build), relocation.rs              *)
(***************************************************************************)
\* goblin::elf64::section_header and goblin::elf64::reloc
SHT_NULL == 0
SHT_PROGBITS == 1
SHT_RELA == 4
SHT_NOBITS == 8
R_X86_64_64 == 1
R_X86_64_PC32 == 2
R_X86_64_PLT32 == 4

\* A section header. A section name is the sequence of its dot-separated
\* components (".rodata.w" is <<"rodata", "w">>, "" is <<>>); sh_flags is the set
\* of the flags that are set; file_range is SectionHeader::file_range().
Shdr(name, type, flags, addralign, range, info) ==
    [sh_name |-> name, sh_type |-> type, sh_flags |-> flags, sh_addr |-> 0,
     sh_addralign |-> addralign, file_range |-> range, sh_info |-> info]

\* Sym::st_info: binding in the high four bits, type in the low four
st_info(sym) == sym.st_bind * 16 + sym.st_type

\* goblin Sym::is_import, as resolve_name calls it
is_import(sym) == sym.st_bind \in {STB_GLOBAL, STB_WEAK} /\ sym.st_value = 0

\* An i64 as two limbs, value = hi * LimbBase + lo: relocation values are sums of
\* an addend that may be as large as 2^31 and of addresses below LimbBase.
LimbBase == 16777216
I64(hi, lo) == [hi |-> hi, lo |-> lo]
AddInt(v, n) == [hi |-> v.hi, lo |-> v.lo + n]
Norm(v) == [hi |-> v.hi + (v.lo \div LimbBase), lo |-> v.lo % LimbBase]

\* i32::try_from(i64) succeeds: -2^31 <= value < 2^31
FitsI32(v) == LET n == Norm(v) IN n.hi >= -128 /\ n.hi <= 127

\* Byte k (0-based) of the two's complement representation of n
RECURSIVE ByteOf(_, _)
ByteOf(n, k) == IF k = 0 THEN n % 256 ELSE ByteOf(n \div 256, k - 1)

\* to_le_bytes of the value truncated to `width` bytes
to_le_bytes(v, width) ==
    LET n == Norm(v) IN
    [j \in 1..width |-> IF j <= 3 THEN ByteOf(n.lo, j - 1) ELSE ByteOf(n.hi, j - 4)]

\* main.rs extract_section_names: the names of the PROGBITS and NOBITS sections
\* of every input
extract_section_names(ins) ==
    UNION {{ins[i].section_headers[k].sh_name :
              k \in {k \in 1..Len(ins[i].section_headers) :
                        ins[i].section_headers[k].sh_type \in {SHT_PROGBITS, SHT_NOBITS}}} :
           i \in 1..Len(ins)}
\* relocation::extract, one relocation: the anchor is a section when the symbol's
\* st_info equals STT_SECTION, else the symbol's name
Relocate(elf, reloc) ==
    LET sym == elf.syms[reloc.r_sym + 1] IN
    [patch_offset |-> reloc.r_offset,
     mode |-> reloc.r_type,
     relative_to |-> IF st_info(sym) = STT_SECTION
                     THEN [kind |-> "Section", index |-> sym.st_shndx]
                     ELSE [kind |-> "Symbol", name |-> sym.st_name],
     relative_offset |-> reloc.r_addend]

\* relocation::extract: the relocations of the relocation sections whose sh_info
\* names the target section, in order
RECURSIVE ExtractRelocs(_, _, _)
ExtractRelocs(elf, target_section_index, k) ==
    IF k > Len(elf.relocs) THEN <<>>
    ELSE LET rs == elf.relocs[k]
             here == IF elf.section_headers[rs.ri + 1].sh_info = target_section_index
                     THEN [j \in 1..Len(rs.entries) |-> Relocate(elf, rs.entries[j])]
                     ELSE <<>>
         IN  here \o ExtractRelocs(elf, target_section_index, k + 1)

extract(elf, target_section_index) == ExtractRelocs(elf, target_section_index, 1)

\* SHF_WRITE / SHF_EXECINSTR set in sh_flags
HasFlag(section, flag) == flag \in section.sh_flags

\* build_section_from: one chunk per PROGBITS section of the input with that name
\* (header k of the sequence is ELF section index k - 1)
RECURSIVE BuildSectionFrom(_, _, _, _)
BuildSectionFrom(input, elf, section_name, k) ==
    IF k > Len(elf.section_headers) THEN <<>>
    ELSE LET section == elf.section_headers[k]
             rest == BuildSectionFrom(input, elf, section_name, k + 1)
         IN  IF section.sh_type # SHT_PROGBITS \/ section.sh_name # section_name
             THEN rest
             ELSE <<SectionChunk(input, section.file_range, k - 1, section.sh_addralign,
                                 Perm(TRUE, HasFlag(section, "SHF_WRITE"),
                                      HasFlag(section, "SHF_EXECINSTR")),
                                 extract(elf, k - 1))>> \o rest

build_section_from(input, elf, section_name) ==
    BuildSectionFrom(input, elf, section_name, 1)

\* build_section_group: the chunks of every input, in input order
build_section_group(ins, section_name) ==
    ConcatAll([i \in 1..Len(ins) |-> build_section_from(i - 1, ins[i], section_name)], 1)

\* combine_sections, build_section_by_name
build_section_by_name(ins, section_name) ==
    [name |-> section_name, chunks |-> build_section_group(ins, section_name)]

\* str::starts_with(format!("{group_name}.")) on a name given by its components
StartsWithGroup(name, group_name) == Len(name) > 1 /\ name[1] = group_name

\* The iteration orders a HashSet may have: every arrangement of its elements
Orders(S) ==
    {o \in [1..Cardinality(S) -> S] : \A i, j \in 1..Cardinality(S) : o[i] = o[j] => i = j}

\* The groups with .rodata walked first
GroupsRodataFirst == <<"rodata", "entry", "text">>

\* The output section groups of combine_sections, in order
Groups == <<"entry", "text", "rodata">>

\* combine_sections, one group: the exact name first, then the names with the
\* group's prefix in the iteration order of the set
CombineGroup(ins, names, order, group_name) ==
    LET exact == IF <<group_name>> \in names
                 THEN <<build_section_by_name(ins, <<group_name>>)>>
                 ELSE <<>>
        prefixed == [k \in 1..Len(order) |->
                        IF StartsWithGroup(order[k], group_name)
                        THEN <<build_section_by_name(ins, order[k])>>
                        ELSE <<>>]
    IN  exact \o ConcatAll(prefixed, 1)

\* combine_sections with the set iterated in the given order
combine_sections(ins, names, order) ==
    ConcatAll([g \in 1..Len(Groups) |-> CombineGroup(ins, names, order, Groups[g])], 1)

\* The names combine_sections builds a section for
CombinedNames(names) ==
    {n \in names : \E g \in 1..Len(Groups) : n = <<Groups[g]>> \/ StartsWithGroup(n, Groups[g])}

\* build_section_from, assert_eq!(section.sh_addr, 0): some section that is built
\* has a fixed address
FixedAddress(ins, names) ==
    \E i \in 1..Len(ins) : \E k \in 1..Len(ins[i].section_headers) :
        LET section == ins[i].section_headers[k] IN
        /\ section.sh_type = SHT_PROGBITS
        /\ section.sh_name \in CombinedNames(names)
        /\ section.sh_addr # 0
(***************************************************************************)
(* name_resolution.rs resolve_name, relocation.rs resolve_relocation_symbols *)
(* and apply_relocations                                                    *)
(***************************************************************************)
\* resolve_name: the first symbol of the input with that name decides: an import,
\* or todo!("local sym"); None without such a symbol
RECURSIVE ResolveNameFrom(_, _, _)
ResolveNameFrom(syms, name, k) ==
    IF k > Len(syms) THEN "None"
    ELSE IF syms[k].st_name = name
    THEN IF is_import(syms[k]) THEN "Import" ELSE "panic"
    ELSE ResolveNameFrom(syms, name, k + 1)

resolve_name(elf, name) == ResolveNameFrom(elf.syms, name, 1)

\* iter_with_positions(config).find(|it| it.chunk.input == input &&
\* it.chunk.section_index == section_index): the index of the first such chunk, 0
\* for None
FindChunk(pos, input, section_index) ==
    LET hits == {n \in 1..Len(pos) : /\ pos[n].chunk.input = input
                                     /\ pos[n].chunk.section_index = section_index}
    IN  IF hits = {} THEN 0 ELSE CHOOSE n \in hits : \A m \in hits : n <= m

\* resolve_relocation_symbols, one relocation of a chunk: a RelocationComputed, an
\* Err or a panic
ResolveReloc(lp, cfg, ins, g, pos, it, reloc) ==
    LET failed(status) ==
            [status |-> status, relative_to |-> 0, offset |-> 0,
             chunk_start |-> it.chunk_start]
        computed(relative_to, offset) ==
            [status |-> "ok", relative_to |-> relative_to, offset |-> offset,
             chunk_start |-> it.chunk_start]
    IN
    IF reloc.relative_to.kind = "Section"
    THEN LET r == lookup_input_section_addr(lp, cfg, it.chunk.input,
                                            reloc.relative_to.index) IN
         IF r.found THEN computed(r.addr, 0)
         ELSE failed("panic")                \* expect("Couln't resolve section in index")
    ELSE LET name == reloc.relative_to.name
             resolved == resolve_name(ins[it.chunk.input + 1], name) IN
         IF resolved = "None" THEN failed("err")
         ELSE IF resolved = "panic" THEN failed("panic")
         ELSE IF name \notin DOMAIN g.table THEN failed("err")
         ELSE LET glob == g.table[name]
                  sym == ins[glob.input + 1].syms[glob.symtab_index + 1]
                  n == FindChunk(pos, glob.input, sym.st_shndx) IN
              IF n = 0 THEN failed("panic")  \* todo!("Section ... was not included")
              ELSE computed(pos[n].chunk_start, sym.st_value)

\* Every relocation of the program in program order: <<n, j>> is relocation j of
\* the n-th chunk
RelocIndices(pos) ==
    ConcatAll([n \in 1..Len(pos) |->
                  [j \in 1..Len(pos[n].chunk.relocations) |-> <<n, j>>]], 1)

\* The collect over the results: the first Err or panic in program order ends it
RECURSIVE CollectAnchors(_, _, _)
CollectAnchors(results, k, acc) ==
    IF k > Len(results) THEN [status |-> "ok", anchors |-> acc]
    ELSE IF results[k].status # "ok" THEN [status |-> results[k].status, anchors |-> <<>>]
    ELSE CollectAnchors(results, k + 1, Append(acc, results[k]))

resolve_relocation_symbols(lp, cfg, ins, g) ==
    LET pos == iter_with_positions(lp, cfg)
        idx == RelocIndices(pos)
    IN  CollectAnchors([k \in 1..Len(idx) |->
                           ResolveReloc(lp, cfg, ins, g, pos, pos[idx[k][1]],
                                        pos[idx[k][1]].chunk.relocations[idx[k][2]])],
                       1, <<>>)

\* The width in bytes of the value a relocation mode writes, 0 for an unknown mode
ModeWidth(mode) ==
    IF mode = R_X86_64_PC32 THEN 4 ELSE IF mode = R_X86_64_64 THEN 8 ELSE 0

\* apply_relocations, the value of one relocation
\*   R_X86_64_PC32: anchor + relative_offset + offset - cs - patch_pos
\*   R_X86_64_64:   base_addr + anchor + relative_offset
FinalValue(cfg, reloc, anchor, cs) ==
    IF reloc.mode = R_X86_64_PC32
    THEN AddInt(reloc.relative_offset,
                anchor.relative_to + anchor.offset - cs - reloc.patch_offset)
    ELSE AddInt(reloc.relative_offset, cfg.base_addr + anchor.relative_to)

\* apply_relocations, the body of the loop for one relocation of a chunk: the
\* chunk's patches afterwards, or the panic
ApplyReloc(cfg, ins, c, reloc, anchor, cs, index) ==
    LET patch_pos == reloc.patch_offset
        width == ModeWidth(reloc.mode)
        final_value == FinalValue(cfg, reloc, anchor, cs)
        backing_bytes == ChunkBytes(ins, c)
        panic(why) == [status |-> why, patches |-> c.patches]
    IN
    IF width = 0 THEN panic("Unknown relocation type")
    ELSE IF reloc.mode = R_X86_64_PC32 /\ ~FitsI32(final_value) THEN panic("Overflow")
    ELSE IF patch_pos + width > Len(backing_bytes) THEN panic("slice index")
    ELSE IF \E j \in 1..width : backing_bytes[patch_pos + j] # 0
    THEN panic("Must only patch over zeroes")
    ELSE LET r == PatchAt(c, patch_pos, to_le_bytes(final_value, width), index) IN
         IF r.result = "Ok" THEN [status |-> "ok", patches |-> r.patches]
         ELSE IF r.result = "panic" THEN panic("index out of bounds")
         ELSE panic("Invalid patch")

\* The chunk at <<segment, section, chunk>> of a program
ChunkAt(lp, at) == lp.segments[at[1]].sections[at[2]].chunks[at[3]]

\* apply_relocations, the three loops from relocation k of the program on; pick[k]
\* is what partition_point returns in the patch call of relocation k
RECURSIVE ApplyFrom(_, _, _, _, _, _, _, _)
ApplyFrom(cfg, ins, pos, idx, computed, pick, k, lp) ==
    IF k > Len(idx) THEN [status |-> "ok", linked |-> lp]
    ELSE LET n == idx[k][1]
             at == ChunkIndices(lp)[n]
             c == ChunkAt(lp, at)
             reloc == c.relocations[idx[k][2]]
         IN  IF pick[k] \notin PartitionPoints(c.patches, reloc.patch_offset)
             THEN [status |-> "no such run", linked |-> lp]
             ELSE LET r == ApplyReloc(cfg, ins, c, reloc, computed[k],
                                      pos[n].chunk_start, pick[k]) IN
                  IF r.status # "ok" THEN [status |-> r.status, linked |-> lp]
                  ELSE ApplyFrom(cfg, ins, pos, idx, computed, pick, k + 1,
                          [segments |->
                              [lp.segments EXCEPT
                                  ![at[1]].sections[at[2]].chunks[at[3]].patches = r.patches]])

\* apply_relocations with the given partition points: Ok with the patched program,
\* an Err, or a panic with the program as it is then
apply_relocations(cfg, ins, lp, g, pick) ==
    LET pos == iter_with_positions(lp, cfg)
        resolved == resolve_relocation_symbols(lp, cfg, ins, g)
    IN  IF resolved.status # "ok"
        THEN [status |-> resolved.status, linked |-> lp, anchors |-> <<>>]
        ELSE LET r == ApplyFrom(cfg, ins, pos, RelocIndices(pos), resolved.anchors,
                                pick, 1, lp) IN
             [status |-> r.status, linked |-> r.linked, anchors |-> resolved.anchors]
(***************************************************************************)
(* Spec: the link of one or two relocatable objects, main.rs from the      *)
(* located inputs to the written image                                     *)
(***************************************************************************)
\* The sizes of the sections of the objects, and the alignments
TextSize == 16
RodataSize == 16
ExtraSize == 8
HelperTextSize == 8
TextAlign == 16
DataAlign == 8
HelperAlign == 4

Zeroes(n) == [j \in 1..n |-> 0]
Range(start, len) == [start |-> start, end |-> start + len]

\* The third section of the main object: a section that is not linked
\* (.comment), a writable one (.rodata.w), an executable one (.text.x) or a
\* NOBITS one (.rodata.z)
ExtraKinds == {"comment", "w", "x", "nobits"}
ExtraHeader(kind) ==
    LET range == Range(TextSize + RodataSize, ExtraSize) IN
    IF kind = "comment" THEN Shdr(<<"comment">>, SHT_PROGBITS, {}, 1, range, 0)
    ELSE IF kind = "w"
    THEN Shdr(<<"rodata", "w">>, SHT_PROGBITS, {"SHF_ALLOC", "SHF_WRITE"}, DataAlign, range, 0)
    ELSE IF kind = "x"
    THEN Shdr(<<"text", "x">>, SHT_PROGBITS, {"SHF_ALLOC", "SHF_EXECINSTR"}, DataAlign, range, 0)
    ELSE Shdr(<<"rodata", "z">>, SHT_NOBITS, {"SHF_ALLOC", "SHF_WRITE"}, DataAlign,
              Range(TextSize + RodataSize, 0), 0)

\* Symbol table indices of the main object
SymRodataSection == 2
SymExtraSection == 3
SymK == 4
SymHelper == 5

\* The addends drawn: 0, -4, 2^31 and 2^31 - 4100 (with the .rodata anchor at
\* 4096 the last one lands just below 2^31)
Addends == {I64(0, 0), I64(0, -4), I64(128, 0), I64(128, -4100)}

\* The first relocation of the main object's .text
FirstRelocs ==
    [r_type : {R_X86_64_64, R_X86_64_PC32, R_X86_64_PLT32},
     r_offset : {4, 8, 12},
     r_sym : {SymRodataSection, SymExtraSection, SymK, SymHelper},
     r_addend : Addends]

\* The second relocation of the main object's .text, if any: a PC32 against the
\* .rodata section before or after the first one
SecondRelocs ==
    {<<>>} \cup
    {<<[r_type |-> R_X86_64_PC32, r_offset |-> o, r_sym |-> SymRodataSection,
        r_addend |-> I64(0, 0)]>> : o \in {0, 9}}

\* The main object: .text, .rodata (which defines the global K at kvalue), a third
\* section and .rela.text; it refers to the undefined global "helper"
MainObject(extra, kvalue, first, second) ==
    Elf(<<Shdr(<<>>, SHT_NULL, {}, 0, Range(0, 0), 0),
          Shdr(<<"text">>, SHT_PROGBITS, {"SHF_ALLOC", "SHF_EXECINSTR"}, TextAlign,
               Range(0, TextSize), 0),
          Shdr(<<"rodata">>, SHT_PROGBITS, {"SHF_ALLOC"}, DataAlign,
               Range(TextSize, RodataSize), 0),
          ExtraHeader(extra),
          Shdr(<<"rela", "text">>, SHT_RELA, {}, DataAlign, Range(0, 0), 1)>>,
        <<Sym("", STB_LOCAL, STT_NOTYPE, STV_DEFAULT, 0, 0),
          Sym("", STB_LOCAL, STT_SECTION, STV_DEFAULT, 1, 0),
          Sym("", STB_LOCAL, STT_SECTION, STV_DEFAULT, 2, 0),
          Sym("", STB_LOCAL, STT_SECTION, STV_DEFAULT, 3, 0),
          Sym("K", STB_GLOBAL, STT_NOTYPE, STV_DEFAULT, 2, kvalue),
          Sym("helper", STB_GLOBAL, STT_NOTYPE, STV_DEFAULT, 0, 0)>>,
        <<[ri |-> 4, entries |-> <<first>> \o second]>>,
        Zeroes(TextSize) \o [j \in 1..RodataSize |-> j] \o Zeroes(ExtraSize))

\* The helper object: .text, which defines the global "helper" at hvalue
HelperObject(hvalue) ==
    Elf(<<Shdr(<<>>, SHT_NULL, {}, 0, Range(0, 0), 0),
          Shdr(<<"text">>, SHT_PROGBITS, {"SHF_ALLOC", "SHF_EXECINSTR"}, HelperAlign,
               Range(0, HelperTextSize), 0)>>,
        <<Sym("", STB_LOCAL, STT_NOTYPE, STV_DEFAULT, 0, 0),
          Sym("helper", STB_GLOBAL, STT_NOTYPE, STV_DEFAULT, 1, hvalue)>>,
        <<>>,
        [j \in 1..HelperTextSize |-> 144])

\* An executable file given as an input: not a relocatable object
Executable(elf) == [elf EXCEPT !.e_type = ET_EXEC]

\* The helper objects drawn: none, one with "helper" at offset 0 or 4, or one
\* that is an executable
Helpers ==
    {<<>>, <<Executable(HelperObject(0))>>} \cup {<<HelperObject(hvalue)>> : hvalue \in {0, 4}}

Init ==
    /\ \E extra \in ExtraKinds, kvalue \in {0, 8}, first \in FirstRelocs,
          second \in SecondRelocs, helper \in Helpers :
          inputs = <<MainObject(extra, kvalue, first, second)>> \o helper
    /\ section_names = {}
    /\ globals = NoGlobals
    /\ assembled = <<>>
    /\ pc = "located"
    /\ panicked = FALSE
    /\ output = NoOutput
    /\ PatchIdle
    /\ LayoutIdle

\* main.rs assert_supported, the test on the file type (the objects drawn are
\* all 64-bit and little-endian)
assert_supported(elf) == elf.e_type = ET_REL

\* main: verify_inputs(&input_files); an unsupported input panics
VerifyInputs ==
    /\ pc = "located"
    /\ ~panicked
    /\ panicked' = (\E i \in 1..Len(inputs) : ~assert_supported(inputs[i]))
    /\ pc' = IF panicked' THEN "failed" ELSE "verified"
    /\ UNCHANGED <<linkVars, patchVars, layoutVars, output>>

\* main: extract_section_names(&input_files)
ExtractSectionNames ==
    /\ pc = "verified"
    /\ ~panicked
    /\ section_names' = extract_section_names(inputs)
    /\ pc' = "loaded"
    /\ UNCHANGED <<inputs, globals, assembled, panicked, patchVars, layoutVars, output>>

\* build: combine_sections(config, inputs, section_names), the set iterated in
\* any order
CombineSections ==
    /\ pc = "globals"
    /\ ~panicked
    /\ \E order \in Orders(section_names) :
          assembled' = IF FixedAddress(inputs, section_names) THEN assembled
                       ELSE combine_sections(inputs, section_names, order)
    /\ panicked' = FixedAddress(inputs, section_names)
    /\ pc' = IF panicked' THEN "failed" ELSE "assembled"
    /\ UNCHANGED <<inputs, section_names, globals, patchVars, layoutVars, output>>

\* build: apply_relocations(config, inputs, &mut linked, globals)
ApplyRelocations ==
    /\ pc = "packed"
    /\ ~panicked
    /\ LET n == Len(RelocIndices(iter_with_positions(linked, config))) IN
       \E pick \in [1..n -> 0..n] :
          LET r == apply_relocations(config, inputs, linked, globals, pick) IN
          /\ r.status # "no such run"
          /\ linked' = r.linked
          /\ anchors' = r.anchors
          /\ panicked' = (r.status \notin {"ok", "err"})
          /\ pc' = IF r.status = "ok" THEN "relocated" ELSE "aborted"
    /\ positions' = iter_with_positions(linked, config)
    /\ UNCHANGED <<config, image, linkVars, patchVars, output>>

\* main: build_binary(&config, &linked)
BuildBinary ==
    /\ pc = "relocated"
    /\ ~panicked
    /\ image' = write(linked, config)
    /\ pc' = "built"
    /\ UNCHANGED <<linked, config, positions, anchors, panicked, linkVars, patchVars, output>>

\* fs::write at any stage of the run
WriteOutputAtAnyStage ==
    /\ ~panicked
    /\ ~output.written
    /\ output' = [written |-> TRUE, binary |-> image]
    /\ pc' = "done"
    /\ UNCHANGED <<panicked, linkVars, patchVars, layoutVars>>

\* main: fs::write(args.output, binary), the last statement
WriteOutput ==
    /\ pc = "built"
    /\ ~panicked
    /\ output' = [written |-> TRUE, binary |-> image]
    /\ pc' = "done"
    /\ UNCHANGED <<panicked, linkVars, patchVars, layoutVars>>

Next ==
    \/ VerifyInputs
    \/ ExtractSectionNames
    \/ ExtractGlobals
    \/ CombineSections
    \/ SectionsToSegments
    \/ ApplyRelocations
    \/ BuildBinary
    \/ WriteOutput

Spec == Init /\ [][Next]_vars

(***************************************************************************)
(* Claims about the relocation values (Spec)                               *)
(***************************************************************************)
\* The stages at which apply_relocations has run
Relocated == pc \in {"relocated", "built"}
AfterApply == pc \in {"relocated", "built", "aborted"}

\* The positions of the chunks of the linked program
Placed == iter_with_positions(linked, config)

\* The places <<input, symbol>> of the global definitions of a name over all inputs
DefinitionsOf(name) ==
    {d \in {<<i, k>> : i \in 1..Len(inputs), k \in 1..MaxOf({Len(inputs[j].syms) : j \in 1..Len(inputs)})} :
        /\ d[2] <= Len(inputs[d[1]].syms)
        /\ inputs[d[1]].syms[d[2]].st_name = name
        /\ IsDefinition(inputs[d[1]].syms[d[2]])}

\* The anchor of a relocation of a chunk of `input` as the specification reads
\* it: the chunk A that holds the anchor and the offset S inside it; placed is
\* FALSE when no chunk of the program holds the anchor
AnchorOf(input, reloc) ==
    LET none == [placed |-> FALSE, A |-> 0, S |-> 0]
        at(in, shndx, value) ==
            LET n == FindChunk(Placed, in, shndx) IN
            IF n = 0 THEN none
            ELSE [placed |-> TRUE, A |-> Placed[n].chunk_start, S |-> value]
    IN  IF reloc.relative_to.kind = "Section"
        THEN at(input, reloc.relative_to.index, 0)
        ELSE LET defs == DefinitionsOf(reloc.relative_to.name) IN
             IF Cardinality(defs) # 1 THEN none
             ELSE LET d == CHOOSE d \in defs : TRUE
                      sym == inputs[d[1]].syms[d[2]]
                  IN  at(d[1] - 1, sym.st_shndx, sym.st_value)

\* A + relative_offset + S - chunk_start - patch_offset for relocation j of the
\* n-th chunk
PC32Value(n, reloc) ==
    LET a == AnchorOf(Placed[n].chunk.input, reloc) IN
    AddInt(reloc.relative_offset, a.A + a.S - Placed[n].chunk_start - reloc.patch_offset)

\* The R_X86_64_PC32 relocations of the linked program, as <<chunk, relocation>>
PC32Relocs ==
    {nj \in {<<n, j>> : n \in 1..Len(Placed), j \in 1..2} :
        /\ nj[2] <= Len(Placed[nj[1]].chunk.relocations)
        /\ Placed[nj[1]].chunk.relocations[nj[2]].mode = R_X86_64_PC32}

RelocAt(nj) == Placed[nj[1]].chunk.relocations[nj[2]]
AnchorPlaced(nj) == AnchorOf(Placed[nj[1]].chunk.input, RelocAt(nj)).placed

HasPatch(c, offset, bytes) ==
    \E i \in 1..Len(c.patches) : c.patches[i].offset = offset /\ c.patches[i].bytes = bytes
HasPatchAt(c, offset) ==
    \E i \in 1..Len(c.patches) : c.patches[i].offset = offset

\* When apply_relocations returns Ok every PC32 relocation has its value installed
C8_Installed ==
    Relocated =>
        \A nj \in PC32Relocs :
            /\ AnchorPlaced(nj)
            /\ HasPatch(Placed[nj[1]].chunk, RelocAt(nj).patch_offset,
                        to_le_bytes(PC32Value(nj[1], RelocAt(nj)), 4))

\* A PC32 value that does not fit a signed 32-bit integer aborts the link and is
\* not installed
C8_OverflowAborts ==
    AfterApply =>
        \A nj \in PC32Relocs :
            (AnchorPlaced(nj) /\ ~FitsI32(PC32Value(nj[1], RelocAt(nj)))) =>
                /\ pc = "aborted"
                /\ ~HasPatchAt(Placed[nj[1]].chunk, RelocAt(nj).patch_offset)

\* The program has one relocation, a PC32 whose anchor is placed, whose value fits
\* and whose four bytes lie inside the chunk over zero bytes
OneValidPC32 ==
    /\ Len(RelocIndices(Placed)) = 1
    /\ \E nj \in PC32Relocs :
          LET c == Placed[nj[1]].chunk
              po == RelocAt(nj).patch_offset IN
          /\ AnchorPlaced(nj)
          /\ FitsI32(PC32Value(nj[1], RelocAt(nj)))
          /\ po + 4 <= ChunkSize(c)
          /\ \A j \in 1..4 : ChunkBytes(inputs, c)[po + j] = 0

\* A valid PC32 relocation does not abort the link
C8_ValidInstalls == (AfterApply /\ OneValidPC32) => pc # "aborted"

\* C8: for every R_X86_64_PC32 relocation of a chunk apply_relocations installs
\* at patch_offset the 4-byte little-endian signed value
\* A + relative_offset + S - chunk_start - patch_offset, where A is the
\* chunk_start of the anchor's chunk, S the symbol's st_value (0 for a section
\* anchor) and chunk_start the start of the patched chunk; a value that does not
\* fit a signed 32-bit integer aborts the link and no patch is installed.
C8_PC32Value == C8_Installed /\ C8_OverflowAborts /\ C8_ValidInstalls

\* Scenario 1: one object whose .text carries an R_X86_64_64 relocation at
\* offset 4 naming the global K, which the object defines at .rodata offset 8
Scenario1 ==
    inputs = <<MainObject("comment", 8,
                          [r_type |-> R_X86_64_64, r_offset |-> 4, r_sym |-> SymK,
                           r_addend |-> I64(0, 0)],
                          <<>>)>>

\* The bytes of the output at offsets from..to of the chunk of section
\* section_index of input 0
OutputBytes(section_index, from, to) ==
    LET n == FindChunk(Placed, 0, section_index)
        w == write_finalized(inputs, Placed[n].chunk) IN
    IF n = 0 \/ w.panic \/ Len(w.out) < to THEN <<>> ELSE Slice(w.out, from, to)

\* C7: linking the object of scenario 1 succeeds, and the 8 bytes at .text[4..12]
\* are the little-endian value base_addr + chunk_start of the .rodata chunk + 8:
\* the absolute value includes the symbol's st_value.
C7_AbsoluteIncludesSymbolOffset ==
    Scenario1 =>
        /\ ~panicked
        /\ pc \notin {"failed", "aborted"}
        /\ Relocated =>
              /\ FindChunk(Placed, 0, 2) # 0
              /\ OutputBytes(1, 4, 12) =
                    to_le_bytes(I64(0, config.base_addr
                                       + Placed[FindChunk(Placed, 0, 2)].chunk_start + 8), 8)

(***************************************************************************)
(* SpecCombine: extract_section_names, combine_sections and                *)
(* sections_to_segments on bounded lists of section headers                *)
(***************************************************************************)
MaxHeaders == 3     \* most section headers, besides the null ones, over the inputs

\* The kinds of section header drawn: the name, the type and the flags
HeaderKinds ==
    {[name |-> <<"entry">>, type |-> SHT_PROGBITS, flags |-> {"SHF_ALLOC", "SHF_EXECINSTR"}],
     [name |-> <<"text">>, type |-> SHT_PROGBITS, flags |-> {"SHF_ALLOC", "SHF_EXECINSTR"}],
     [name |-> <<"text", "a">>, type |-> SHT_PROGBITS, flags |-> {"SHF_ALLOC", "SHF_EXECINSTR"}],
     [name |-> <<"text", "b">>, type |-> SHT_PROGBITS, flags |-> {"SHF_ALLOC", "SHF_EXECINSTR"}],
     [name |-> <<"rodata">>, type |-> SHT_PROGBITS, flags |-> {"SHF_ALLOC"}],
     [name |-> <<"rodata", "zero">>, type |-> SHT_NOBITS, flags |-> {"SHF_ALLOC", "SHF_WRITE"}],
     [name |-> <<"data", "d">>, type |-> SHT_PROGBITS, flags |-> {"SHF_ALLOC", "SHF_WRITE"}]}

\* One section header to draw: its kind and the input (0 or 1) that holds it
HeaderDesc == [kind : HeaderKinds, input : {0, 1}]

\* The null section header every ELF file starts with
NullHeader == Shdr(<<>>, SHT_NULL, {}, 0, Range(0, 0), 0)

\* The section headers of input `input` described by d[1..n], after the null
\* header; the section at ELF index k has the one byte at file offset k
RECURSIVE HeadersOf(_, _, _)
HeadersOf(d, n, input) ==
    IF n = 0 THEN <<NullHeader>>
    ELSE LET hs == HeadersOf(d, n - 1, input) IN
         IF d[n].input # input THEN hs
         ELSE Append(hs, Shdr(d[n].kind.name, d[n].kind.type, d[n].kind.flags, 1,
                              Range(Len(hs), IF d[n].kind.type = SHT_NOBITS THEN 0 ELSE 1),
                              0))

\* The two input objects described by d[1..n]: no symbols, no relocations
HeaderInputs(d, n) ==
    [i \in 1..2 |->
        LET hs == HeadersOf(d, n, i - 1) IN
        Elf(hs, <<Sym("", STB_LOCAL, STT_NOTYPE, STV_DEFAULT, 0, 0)>>, <<>>, Zeroes(Len(hs)))]

InitCombine ==
    /\ \E n \in 1..MaxHeaders : \E d \in [1..n -> HeaderDesc] :
          inputs = HeaderInputs(d, n)
    /\ section_names = {}
    /\ globals = NoGlobals
    /\ assembled = <<>>
    /\ pc = "located"
    /\ panicked = FALSE
    /\ output = NoOutput
    /\ PatchIdle
    /\ LayoutIdle

NextCombine ==
    \/ VerifyInputs
    \/ ExtractSectionNames
    \/ ExtractGlobals
    \/ CombineSections
    \/ SectionsToSegments

SpecCombine == InitCombine /\ [][NextCombine]_vars

(***************************************************************************)
(* Claims about the assembly of the output sections (SpecCombine)          *)
(***************************************************************************)
\* The PROGBITS section headers of the inputs, as <<input, header>> (1-based)
ProgbitsHeaders ==
    {ik \in {<<i, k>> : i \in 1..Len(inputs), k \in 1..(MaxHeaders + 2)} :
        /\ ik[2] <= Len(inputs[ik[1]].section_headers)
        /\ inputs[ik[1]].section_headers[ik[2]].sh_type = SHT_PROGBITS}

HeaderAt(ik) == inputs[ik[1]].section_headers[ik[2]]

\* Some input contributes a PROGBITS section of the group with these flags
Contributes(group_name, flags) ==
    \E ik \in ProgbitsHeaders :
        /\ Len(HeaderAt(ik).sh_name) > 0
        /\ HeaderAt(ik).sh_name[1] = group_name
        /\ HeaderAt(ik).sh_flags = flags

\* The inputs contribute .text.* (r-x), .rodata.* (r--) and a writable .data.*,
\* and nothing else
TextRodataData ==
    /\ Contributes("text", {"SHF_ALLOC", "SHF_EXECINSTR"})
    /\ Contributes("rodata", {"SHF_ALLOC"})
    /\ Contributes("data", {"SHF_ALLOC", "SHF_WRITE"})
    /\ \A i \in 1..Len(inputs) : \A k \in 1..Len(inputs[i].section_headers) :
          inputs[i].section_headers[k].sh_type \in {SHT_NULL, SHT_PROGBITS}

\* The permissions of the segments of the linked program, in order
SegmentPerms == [s \in 1..Len(linked.segments) |-> SegmentPermissions(linked.segments[s])]

\* C11: when the inputs contribute PROGBITS sections .text.* (r-x), .rodata.*
\* (r--) and a writable .data.* (rw-), the linked program has three segments in
\* the order r-x, r--, rw-: the .data.* section is emitted, not left out.
C11_DataSegmentEmitted ==
    (pc = "packed" /\ TextRodataData) =>
        SegmentPerms = <<Perm(TRUE, FALSE, TRUE), Perm(TRUE, FALSE, FALSE),
                         Perm(TRUE, TRUE, FALSE)>>

\* C12: two runs of the link on the same ordered inputs produce the same ordered
\* list of output sections, whatever order the section-name set is iterated in:
\* the list a run has assembled is the list every iteration order yields.
C12_AssemblyIndependentOfSetOrder ==
    (pc = "assembled") =>
        \A order \in Orders(section_names) :
            assembled = combine_sections(inputs, section_names, order)

(***************************************************************************)
(* SpecConfig: the walks of SpecLayout under every Config drawn, with      *)
(* segment_file_align and page_size that differ and a page_size below the  *)
(* largest chunk alignment                                                 *)
(***************************************************************************)
MaxConfigChunks == 3    \* most chunks of a program in SpecConfig

\* The values of segment_file_align and of page_size drawn
FileAligns == {8, 4096}
PageSizes == {2, 4096}

Configs ==
    {[base_addr |-> BaseAddr, segment_file_align |-> f, page_size |-> p] :
        f \in FileAligns, p \in PageSizes}

InitConfig ==
    /\ \E n \in 1..MaxConfigChunks : \E d \in [1..n -> Desc] :
          /\ d[1].opens = "segment"
          /\ SegmentCount(d) <= Len(Palette)
          /\ linked = BuildProgram(d, n)
    /\ config \in Configs
    /\ positions = <<>>
    /\ anchors = <<>>
    /\ image = NoImage
    /\ pc = "packed"
    /\ panicked = FALSE
    /\ output = NoOutput
    /\ PatchIdle
    /\ LinkIdle

SpecConfig == InitConfig /\ [][NextLayout]_vars

(***************************************************************************)
(* Claims about the program headers (SpecConfig)                           *)
(***************************************************************************)
\* C13: for every segment and every Config, also one where segment_file_align
\* differs from page_size, the program header written has
\* p_filesz = p_memsz = align_up(segment.size(), segment_file_align).
C13_FileSizeIsMemSize ==
    pc = "written" =>
        \A i \in 1..Len(linked.segments) :
            /\ image.headers[i].p_filesz =
                  align_up(SegmentSize(linked.segments[i]), config.segment_file_align)
            /\ image.headers[i].p_memsz = image.headers[i].p_filesz

\* C14: for every segment the start the writer records in the program header
\* equals the start used during relocation: p_vaddr - base_addr is the
\* segment_start iter_with_positions yields, also when the segment's alignment
\* is larger than page_size.
C14_VaddrIsSegmentStart ==
    pc = "written" =>
        \A n \in 1..Len(positions) :
            image.headers[positions[n].segment_index + 1].p_vaddr - config.base_addr
                = positions[n].segment_start

(***************************************************************************)
(* Claims about the order of the stages (Spec)                             *)
(***************************************************************************)
\* The stages of a run that has not failed, in order: inputs located (load),
\* verified (validate), names collected, globals collected, sections assembled,
\* segments packed, relocations applied, binary built, output written
Stages ==
    <<"located", "verified", "loaded", "globals", "assembled", "packed", "relocated",
      "built", "done">>

StageIndex(stage) == CHOOSE i \in 1..Len(Stages) : Stages[i] = stage

\* A stage has failed: the run returned an error or the process panicked
StageFailed == panicked \/ pc \in {"failed", "aborted"}

\* A step moves to the next stage or to a failure
StepInOrder ==
    pc' # pc =>
        \/ pc' \in {"failed", "aborted"}
        \/ /\ \E i \in 1..Len(Stages) : Stages[i] = pc
           /\ \E i \in 1..Len(Stages) : Stages[i] = pc'
           /\ StageIndex(pc') = StageIndex(pc) + 1

\* The output file changes only in the step from the built binary to the end, in
\* a run in which no stage has failed
WriteIsLast ==
    output' # output => (pc = "built" /\ pc' = "done" /\ ~StageFailed /\ ~output.written)

\* C15: the stages run in the fixed order load, validate, collect names, collect
\* globals, assemble, pack, relocate, write, and the output file is written only
\* after every earlier stage has succeeded: in a run where some stage fails no
\* byte of the output file is written.
C15_OutputOnlyAfterAllStages ==
    /\ [][StepInOrder /\ WriteIsLast]_vars
    /\ [](StageFailed => ~output.written)
    /\ [](output.written => pc = "done")

\* A run that went through every stage and wrote the binary it built
C15_Witness == pc = "done" /\ output.written /\ output.binary = image /\ image # NoImage

(***************************************************************************)
(* SpecArchive: SectionChunk::patch and write_finalized on a chunk whose   *)
(* input is a plain .o file or a .o member of an .rlib archive             *)
(***************************************************************************)
MaxMemberOffset == 2    \* most bytes of the archive before the member

\* The bytes of an archive before the member: byte j is 100 + j, unlike any byte
\* of the member
ArchiveHead(n) == [j \in 1..n |-> 100 + j]

\* InputCacheItem::Archive: the ELF is parsed from the extracted member's bytes,
\* the mapped file is the whole archive
ArchiveMember(elf, head) == [elf EXCEPT !.mmap = head \o elf.bytes]

InitArchive ==
    /\ \E size \in 1..MaxSize, offset \in 0..MaxMemberOffset :
         /\ inputs = <<IF offset = 0
                       THEN Elf(<<>>, <<>>, <<>>, OrigBytes(size))
                       ELSE ArchiveMember(Elf(<<>>, <<>>, <<>>, OrigBytes(size)),
                                          ArchiveHead(offset))>>
         /\ chunk = SectionChunk(0, [start |-> 0, end |-> size], 1, 1,
                                 Perm(TRUE, FALSE, TRUE), <<>>)
    /\ call = NoCall
    /\ written = NoWrite
    /\ panicked = FALSE
    /\ output = NoOutput
    /\ pc = "patch"
    /\ LayoutIdle
    /\ section_names = {}
    /\ globals = NoGlobals
    /\ assembled = <<>>

SpecArchive == InitArchive /\ [][NextPatch]_vars

\* The bytes of the chunk's section inside its own input ELF
OwnBytes(ins, c) ==
    Slice(ins[c.input + 1].bytes, c.range_in_input.start, c.range_in_input.end)

\* C16: for every chunk, of a plain .o file or of a .o member of an archive, the
\* original bytes read for the chunk (in the zero-check of relocation and in
\* write_finalized) are the bytes of the section's file range inside its own
\* input ELF: for an archive member the range is relative to the member's bytes.
C16_ChunkBytesFromOwnElf ==
    (written.done /\ chunk.patches = <<>>) =>
        /\ ~written.panic
        /\ written.out = OwnBytes(inputs, chunk)
        /\ ChunkBytes(inputs, chunk) = OwnBytes(inputs, chunk)

\* Some input has a NOBITS section whose name falls in an assembled group while
\* no input has a PROGBITS section of that name
LoneNobits ==
    \E i \in 1..Len(inputs) : \E k \in 1..Len(inputs[i].section_headers) :
        LET section == inputs[i].section_headers[k] IN
        /\ section.sh_type = SHT_NOBITS
        /\ section.sh_name \in CombinedNames({section.sh_name})
        /\ \A ik \in ProgbitsHeaders : HeaderAt(ik).sh_name # section.sh_name

\* Every chunk of the linked program comes from a PROGBITS section, and every
\* section and segment of it holds a chunk
OnlyProgbitsLinked ==
    \A s \in 1..Len(linked.segments) :
        /\ linked.segments[s].sections # <<>>
        /\ \A c \in 1..Len(linked.segments[s].sections) :
              LET chunks == linked.segments[s].sections[c].chunks IN
              /\ chunks # <<>>
              /\ \A k \in 1..Len(chunks) :
                    <<chunks[k].input + 1, chunks[k].section_index + 1>> \in ProgbitsHeaders

\* C17: SHT_NOBITS input sections are ignored: with a NOBITS section whose name
\* falls in an assembled group and no PROGBITS section of that name in any
\* input, the link does not abort because of it and the NOBITS section
\* contributes no chunk and no segment to the LinkedProgram.
C17_NobitsIgnored ==
    LoneNobits =>
        /\ ~StageFailed
        /\ pc = "packed" => OnlyProgbitsLinked

(***************************************************************************)
(* SpecZero: the walks of SpecLayout on programs with chunks of            *)
(* sh_addralign 0                                                          *)
(***************************************************************************)
MaxZeroChunks == 3      \* most chunks of a program in SpecZero

\* One chunk to draw, as Desc, with the alignments 0, 1 and 2
ZeroDesc == [alignment : {0, 1, 2}, size : Sizes, opens : {"segment", "section", "chunk"}]

InitZero ==
    /\ \E n \in 1..MaxZeroChunks : \E d \in [1..n -> ZeroDesc] :
          /\ d[1].opens = "segment"
          /\ SegmentCount(d) <= Len(Palette)
          /\ linked = BuildProgram(d, n)
    /\ config = DefaultConfig
    /\ positions = <<>>
    /\ anchors = <<>>
    /\ image = NoImage
    /\ pc = "packed"
    /\ panicked = FALSE
    /\ output = NoOutput
    /\ PatchIdle
    /\ LinkIdle

SpecZero == InitZero /\ [][NextLayout]_vars

\* The program with every chunk alignment 0 replaced by 1
WithAlignmentOne(lp) ==
    [segments |->
        [s \in 1..Len(lp.segments) |->
            [sections |->
                [c \in 1..Len(lp.segments[s].sections) |->
                    [lp.segments[s].sections[c] EXCEPT !.chunks =
                        [k \in 1..Len(@) |->
                            [@[k] EXCEPT !.alignment = IF @ = 0 THEN 1 ELSE @]]]]]]]

\* C18: a chunk alignment of 0 is treated as 1: for a program with a chunk of
\* sh_addralign 0, Section::size, Segment::size, iter_with_positions and the
\* writer complete without failure and place the chunk where they would place
\* it with alignment 1.
C18_ZeroAlignmentIsOne ==
    ZeroAlignment(linked) =>
        /\ ~StageFailed
        /\ pc \in {"positioned", "resolved", "written"} =>
              [n \in 1..Len(positions) |-> positions[n].chunk_start] =
                 [n \in 1..Len(positions) |->
                     iter_with_positions(WithAlignmentOne(linked), config)[n].chunk_start]
        /\ pc = "written" => image = write(WithAlignmentOne(linked), config)

(***************************************************************************)
(* Overlap detection of SectionChunk::patch (SpecPatch)                    *)
(***************************************************************************)
\* The patch list before the last call of patch: an accepted patch is the last
\* element of the list, any other result leaves the list as it was
PatchesBeforeCall ==
    IF call.result = "Ok"
    THEN SubSeq(chunk.patches, 1, Len(chunk.patches) - 1)
    ELSE chunk.patches

\* [at, at + len) of the last call shares a byte with a patch held before it
IntersectsExisting ==
    \E i \in 1..Len(PatchesBeforeCall) :
        /\ call.at < PatchesBeforeCall[i].offset + Len(PatchesBeforeCall[i].bytes)
        /\ PatchesBeforeCall[i].offset < call.at + call.len

\* C19: for a patch that passed the range check, on a chunk that already holds
\* patches, patch returns Err(Overlapping) if and only if [at, at + len)
\* intersects the range of an existing patch, and otherwise returns Ok and
\* installs the patch; a patch below every existing patch and a patch that
\* starts where an existing patch ends are accepted, and no call panics.
C19_OverlappingIffIntersects ==
    (/\ call.result \notin {"none", "NotInRange"}
     /\ call.at + call.len <= ChunkSize(chunk)
     /\ PatchesBeforeCall # <<>>) =>
        /\ call.result \in {"Ok", "Overlapping"}
        /\ (call.result = "Overlapping") <=> IntersectsExisting
        /\ call.result = "Ok" =>
              \E i \in 1..Len(chunk.patches) :
                  chunk.patches[i] = [offset |-> call.at, bytes |-> PatchBytes(call.len)]

\* The same with the two cases left out in which patch is known to fail: the
\* new patch starts below every existing patch, or starts exactly where an
\* existing patch ends.
C19_ApartFromFirstAndAdjacent ==
    (/\ call.result \notin {"none", "NotInRange"}
     /\ PatchesBeforeCall # <<>>
     /\ \A i, j \in 1..Len(PatchesBeforeCall) :
            i < j => PatchesBeforeCall[i].offset < PatchesBeforeCall[j].offset
     /\ \E i \in 1..Len(PatchesBeforeCall) : PatchesBeforeCall[i].offset < call.at
     /\ \A i \in 1..Len(PatchesBeforeCall) :
            PatchesBeforeCall[i].offset + Len(PatchesBeforeCall[i].bytes) # call.at) =>
        /\ call.result \in {"Ok", "Overlapping"}
        /\ (call.result = "Overlapping") <=> IntersectsExisting

(***************************************************************************)
(* Order of the assembled sections (SpecCombine)                           *)
(***************************************************************************)
\* The rank of the group a section name belongs to, in the order .entry,
\* .text, .rodata; 0 for a name of no group
GroupIndex(name) ==
    CASE name[1] = "entry" -> 1
      [] name[1] = "text" -> 2
      [] name[1] = "rodata" -> 3
      [] OTHER -> 0

\* Chunk a comes before chunk b by input, then by section-header index
ChunkBefore(a, b) ==
    \/ a.input < b.input
    \/ a.input = b.input /\ a.section_index < b.section_index

\* C20: combine_sections emits the output sections group by group in the
\* order .entry, .text, .rodata; inside a group the section named as the group
\* comes before every section named group-dot-suffix; each observed name is
\* assembled at most once; inside an output section the chunks are ordered by
\* input, then by section-header index.
C20_SectionsInGroupOrder ==
    (pc \in {"assembled", "packed"}) =>
        /\ \A i \in 1..Len(assembled) : GroupIndex(assembled[i].name) \in 1..3
        /\ \A i, j \in 1..Len(assembled) :
              i < j =>
                 /\ GroupIndex(assembled[i].name) <= GroupIndex(assembled[j].name)
                 /\ assembled[i].name # assembled[j].name
                 /\ GroupIndex(assembled[i].name) = GroupIndex(assembled[j].name)
                       => Len(assembled[j].name) > 1
        /\ \A i \in 1..Len(assembled) :
              \A a, b \in 1..Len(assembled[i].chunks) :
                 a < b => ChunkBefore(assembled[i].chunks[a], assembled[i].chunks[b])

\* combine_sections has assembled .text before a section named .text.<suffix>,
\* and .text holds chunks of both inputs
C20_Witness ==
    /\ pc = "assembled"
    /\ \E i, j \in 1..Len(assembled) :
          /\ i < j
          /\ assembled[i].name = <<"text">>
          /\ Len(assembled[j].name) > 1 /\ assembled[j].name[1] = "text"
          /\ \E a, b \in 1..Len(assembled[i].chunks) :
                assembled[i].chunks[a].input < assembled[i].chunks[b].input

(***************************************************************************)
(* SpecOverwrite: the link of one object whose .text holds non-zero bytes, *)
(* given as a plain file or as a member of an archive                      *)
(***************************************************************************)
MaxHeadLen == 4     \* most bytes of the archive before the member in SpecOverwrite

\* The offsets of the non-zero bytes of .text that are drawn
DirtyOffsets == {{}, {5}, {9}, {4, 5, 6, 7}}

\* The bytes of a .text with the given non-zero offsets
TextBytes(dirty) == [j \in 1..TextSize |-> IF j - 1 \in dirty THEN 144 ELSE 0]

\* The object with the bytes of its first section, .text, replaced
WithText(elf, text) ==
    LET bytes == text \o SubSeq(elf.bytes, Len(text) + 1, Len(elf.bytes)) IN
    [elf EXCEPT !.bytes = bytes, !.mmap = bytes]

\* The relocations of .text drawn: one of 4 or 8 bytes against the .rodata
\* section, and the second ones of SecondRelocs
OverwriteRelocs ==
    [r_type : {R_X86_64_64, R_X86_64_PC32},
     r_offset : {0, 4, 8},
     r_sym : {SymRodataSection},
     r_addend : {I64(0, 0)}]

InitOverwrite ==
    /\ \E dirty \in DirtyOffsets, first \in OverwriteRelocs, second \in SecondRelocs,
          head \in 0..MaxHeadLen :
          LET elf == WithText(MainObject("comment", 0, first, second), TextBytes(dirty)) IN
          inputs = <<IF head = 0 THEN elf ELSE ArchiveMember(elf, ArchiveHead(head))>>
    /\ section_names = {}
    /\ globals = NoGlobals
    /\ assembled = <<>>
    /\ pc = "located"
    /\ panicked = FALSE
    /\ output = NoOutput
    /\ PatchIdle
    /\ LayoutIdle

SpecOverwrite == InitOverwrite /\ [][Next]_vars

\* Patch p of chunk c covers only bytes that are 0 in the section's bytes
\* inside its own input ELF
OverZeroes(c, p) ==
    \A j \in 1..Len(p.bytes) :
        /\ p.offset + j <= Len(OwnBytes(inputs, c))
        /\ OwnBytes(inputs, c)[p.offset + j] = 0

\* The chunks of the linked program
LinkedChunks == {ChunkAt(linked, ChunkIndices(linked)[n]) : n \in 1..Len(ChunkIndices(linked))}

\* C21: for every relocation that apply_relocations applies, the bytes of the
\* chunk covered by the patch (4 bytes for R_X86_64_PC32, 8 for R_X86_64_64)
\* were all zero in the chunk's original bytes; a relocation over a non-zero
\* byte aborts the link before a patch for it is installed. So no patch of the
\* linked program, in a run that succeeds or in one that aborts, lies over a
\* non-zero byte.
C21_PatchesOverZeroes ==
    \A c \in LinkedChunks : \A i \in 1..Len(c.patches) : OverZeroes(c, c.patches[i])

\* The same for the inputs that are plain files
C21_PlainFilePatchesOverZeroes ==
    (\A i \in 1..Len(inputs) : inputs[i].mmap = inputs[i].bytes) =>
        \A c \in LinkedChunks : \A i \in 1..Len(c.patches) : OverZeroes(c, c.patches[i])

\* A relocation of a plain file over a non-zero byte has aborted the link
C21_NonZeroAborted ==
    /\ pc = "aborted" /\ panicked
    /\ inputs[1].mmap = inputs[1].bytes
    /\ \E c \in LinkedChunks : \E k \in 1..Len(c.relocations) :
          \E j \in 1..ModeWidth(c.relocations[k].mode) :
             OwnBytes(inputs, c)[c.relocations[k].patch_offset + j] # 0

(***************************************************************************)
(* Weak and global definitions of one name (SpecGlobals)                   *)
(***************************************************************************)
\* The weak definitions by the words of the claim: weak binding, not hidden,
\* defined
WeakDefinitions ==
    {loc \in AllSyms :
        /\ SymAt(loc).st_bind = 2
        /\ SymAt(loc).st_visibility # 2
        /\ SymAt(loc).st_shndx # 0}

\* A weak definition and a global definition of one name in different inputs
WeakAndGlobal ==
    {wg \in WeakDefinitions \X Definitions :
        wg[1][1] # wg[2][1] /\ SymAt(wg[1]).st_name = SymAt(wg[2]).st_name}

\* C22, as stated: when the same name is defined with weak binding
\* (non-hidden, st_shndx # 0) in one input and with global binding in another,
\* global symbol collection raises "Duplicate definition".
C22_WeakAndGlobalIsDuplicate ==
    (pc = "globals" /\ WeakAndGlobal # {}) => globals.status = "panic"

\* C22, amended: a weak definition is not collected. With a weak and a global
\* definition of one name in different inputs, "Duplicate definition" is raised
\* only if two global definitions carry one name, and otherwise the table maps
\* the name to the global definition, whichever input comes first.
C22_WeakDefinitionNotCollected ==
    (pc = "globals" /\ WeakAndGlobal # {}) =>
        /\ (globals.status = "panic") <=> DuplicateDefined
        /\ globals.status = "ok" =>
              \A wg \in WeakAndGlobal :
                 globals.table[SymAt(wg[2]).st_name] =
                     [input |-> wg[2][1], symtab_index |-> wg[2][2]]

\* The extraction has succeeded on a weak definition in the first input and a
\* global definition of the same name in the second
C22_Witness ==
    /\ pc = "globals"
    /\ globals.status = "ok"
    /\ \E wg \in WeakAndGlobal :
          /\ wg[1][1] < wg[2][1]
          /\ globals.table[SymAt(wg[2]).st_name] =
                 [input |-> wg[2][1], symtab_index |-> wg[2][2]]

====
